---- MODULE Spec2Model ----
(***************************************************************************)
(* A model of the two algorithmic parts of gurs-creative-field and of the   *)
(* component that drives them:                                             *)
(*   - the AudioService singleton of src/services/audioService.ts (the     *)
(*     Web Audio graph, its start / updateParams / toggleMute surface);    *)
(*   - the processedProjects layout of src/App.tsx (score mapping,         *)
(*     120 passes of pairwise repulsion, boundary clamp);                  *)
(*   - the handlers and effects of App in src/App.tsx that call the engine *)
(*     (Enter, deep links, scroll frames, mute, the playlist).             *)
(* Real numbers are modelled exactly as scaled integers: audio parameter   *)
(* values in units of 1/Den, layout coordinates in units of 1/SCALE.       *)
(***************************************************************************)
EXTENDS Integers, Sequences, FiniteSets, TLC

(***************************************************************************)
(* Bounds of the model                                                     *)
(***************************************************************************)
\* updateParams inputs are the grid points i/Grid, i in 0..Grid, of [0,1];
\* the grid has the point 1/2, which updateState passes for an empty scroll range
HalfGrid == 1
Grid == 2 * HalfGrid
\* start() calls that may be suspended at `await audioCtx.resume()` at once
MaxPending == 2
\* number of work records in a loaded list
MaxItems == 2
\* seconds of audioCtx.currentTime told apart; later times count as MaxTime
MaxTime == 4

(***************************************************************************)
(* Audio engine: state                                                     *)
(***************************************************************************)
VARIABLES
    audioCtx,        \* "null" | "suspended" | "running": this.audioCtx and its .state
    isPlaying,       \* this.isPlaying
    isMuted,         \* this.isMuted
    masterGain,      \* the node fields: TRUE when the field holds a node
    delayNode,
    delayGain,
    filterNode,
    oscSub,
    oscLow,
    pannerLow,
    oscHigh,
    pannerHigh,
    created,         \* platform: how many nodes each create call of start() has produced
    contexts,        \* platform: how many audio contexts have been constructed
    masterStart,     \* masterGain.gain: value of setValueAtTime in start()
    fadeInTarget,    \* masterGain.gain: end value of linearRampToValueAtTime in start()
    masterTarget,    \* masterGain.gain: target of the last setTargetAtTime
    filterTarget,    \* filterNode.frequency: target of the last setTargetAtTime
    oscLowTarget,    \* oscLow.frequency: target of the last setTargetAtTime
    oscHighTarget,   \* oscHigh.frequency: target of the last setTargetAtTime
    delayGainTarget, \* delayGain.gain: target of the last setTargetAtTime
    awaiting,        \* FIFO of start() calls suspended at `await this.audioCtx.resume()`
    thrown,          \* public methods that have thrown synchronously to their caller
    lastOp,          \* the last call made on the engine, with its arguments
    lastStart,       \* how the start() call that finished last ended
    failureSeen,     \* some start() attempt has failed (its promise was rejected)
    currentTime,     \* platform: audioCtx.currentTime, in seconds
    rampEnd,         \* masterGain.gain: end time of linearRampToValueAtTime in start()
    targetAt,        \* masterGain.gain: start time of the last setTargetAtTime
    gain             \* masterGain.gain: the value the automation has reached

nodeVars == <<masterGain, delayNode, delayGain, filterNode, oscSub, oscLow,
              pannerLow, oscHigh, pannerHigh>>
targetVars == <<filterTarget, oscLowTarget, oscHighTarget, delayGainTarget>>
masterVars == <<masterStart, fadeInTarget, masterTarget>>
histVars == <<lastStart, failureSeen>>
timeVars == <<currentTime, rampEnd, targetAt, gain>>
audioVars == <<audioCtx, isPlaying, isMuted, nodeVars, created, contexts, masterVars,
               targetVars, awaiting, thrown, lastOp, histVars, timeVars>>

(***************************************************************************)
(* Layout: state                                                           *)
(***************************************************************************)
VARIABLES
    rawProjects,        \* the loaded work records (useState, line 27)
    nodes,              \* the working list of the layout computation
    pass,               \* the loop counter i of line 150
    layoutPc,           \* "idle": rawProjects changed, processedProjects is stale
                        \* "running": inside the useMemo callback; "done": it returned
    processedProjects,  \* the list the useMemo callback returned
    reloaded,           \* the last setRawProjects brought a list equal to the one before
    previous            \* then: what the callback had returned for the list before

layoutVars == <<rawProjects, nodes, pass, layoutPc, processedProjects, reloaded, previous>>

(***************************************************************************)
(* App: the state of the component that drives the engine                  *)
(***************************************************************************)
VARIABLES
    mounted,          \* App has rendered for the first time and its effects have run
    isLoading,        \* useState(true), line 28; the scroll container exists when false
    hasStarted,       \* useState(isDirectProjectAccess), line 22
    appIsMuted,       \* App's isMuted, useState(false), line 23
    hash,             \* window.location.hash: "none" | "project" (a #project/ link)
    appPc,            \* "idle" | "afterStart": startExperience is past its await
    callers,          \* who awaits each suspended start(): "enter" | "effect"
    zoom,             \* useState(1), line 32: "min" (0.4) | "between" | "max" (1.5)
    rafRef,           \* rafRef.current holds a frame id (is not null)
    frames,           \* platform: frame callbacks of onScroll requested and not yet run
    listening,        \* onScroll is attached to the scroll container
    scrollLeft,       \* container.scrollLeft
    scrollTop,        \* container.scrollTop
    maxScrollX,       \* container.scrollWidth - container.clientWidth
    maxScrollY,       \* container.scrollHeight - container.clientHeight
    unseen,           \* scroll events, while started, since the last updateState
    playingProject,   \* id of playingProject, line 44; NoProject for null
    isAudioPlaying,   \* line 45
    playlistHistory,  \* playlistHistory.current, line 52: a set of ids
    run               \* the ids set playing since the history was last cleared

coreVars == <<mounted, isLoading, hasStarted, hash, appPc, callers>>
scrollVars == <<zoom, rafRef, frames, listening, scrollLeft, scrollTop, maxScrollX,
                maxScrollY, unseen>>
playVars == <<playingProject, isAudioPlaying, playlistHistory, run>>
appVars == <<coreVars, appIsMuted, scrollVars, playVars>>

\* what a step of the audio engine, and a step of the layout, leave alone
otherThanAudio == <<layoutVars, appVars>>
otherThanLayout == <<audioVars, appVars>>

\* Common denominator of the audio parameter values: a value v is stored as v * Den
Den == 10 * Grid * Grid
\* "no automation scheduled yet" for a parameter
NoTarget == 0 - 1
\* "no such automation event" for the time of an event
NoTime == 0 - 1

\* The node-creation calls of start(), in source order (lines 42..100)
BuildSteps == <<"masterGain", "delayNode", "delayGain", "filterNode", "oscSub",
                "subGain", "oscLow", "pannerLow", "lowGain", "oscHigh",
                "pannerHigh", "highGain">>
NumBuildSteps == Len(BuildSteps)
Roles == {BuildSteps[i] : i \in 1..NumBuildSteps}
StepOf(role) == CHOOSE i \in 1..NumBuildSteps : BuildSteps[i] = role

\* A finished start(): how it ended ("ok" | "rejected"), whether it was called after
\* an earlier start() had failed, whether it was called while another start() was
\* suspended at the await, and whether it returned at line 34 without building.
NoStart == [outcome |-> "none", afterFailure |-> FALSE, overlapped |-> FALSE,
            early |-> FALSE]
Finished(how, call, isEarly) ==
    [outcome |-> how, afterFailure |-> call.afterFailure,
     overlapped |-> call.overlapped, early |-> isEarly]
\* A start() call as it is made now
ThisCall == [afterFailure |-> failureSeen, overlapped |-> awaiting # <<>>]

NoOp == [op |-> "none", x |-> 0, y |-> 0, muted |-> FALSE]
Call(name, x, y, m) == [op |-> name, x |-> x, y |-> y, muted |-> m]

InitAudio ==
    /\ audioCtx = "null"
    /\ isPlaying = FALSE
    /\ isMuted = FALSE
    /\ masterGain = FALSE /\ delayNode = FALSE /\ delayGain = FALSE
    /\ filterNode = FALSE /\ oscSub = FALSE /\ oscLow = FALSE
    /\ pannerLow = FALSE /\ oscHigh = FALSE /\ pannerHigh = FALSE
    /\ created = [r \in Roles |-> 0]
    /\ contexts = 0
    /\ masterStart = NoTarget /\ fadeInTarget = NoTarget /\ masterTarget = NoTarget
    /\ filterTarget = NoTarget /\ oscLowTarget = NoTarget
    /\ oscHighTarget = NoTarget /\ delayGainTarget = NoTarget
    /\ awaiting = <<>>
    /\ thrown = {}
    /\ lastOp = NoOp
    /\ lastStart = NoStart
    /\ failureSeen = FALSE
    /\ currentTime = 0
    /\ rampEnd = NoTime /\ targetAt = NoTime /\ gain = NoTarget

(***************************************************************************)
(* Audio engine: the platform                                              *)
(***************************************************************************)
\* What `new AudioContextClass()` does: a context in one of its two initial
\* states, or an exception (no constructor on window, or the constructor denied)
CtorOutcomes == {"running", "suspended", "throws"}
\* Which node-creation call of start() throws: 0 for none, k for the k-th
FailPoints == 0..NumBuildSteps

(***************************************************************************)
(* initialize(), lines 20-24                                               *)
(***************************************************************************)
InitializeThrows(ctor) == audioCtx = "null" /\ ctor = "throws"
InitializeCtx(ctor) ==
    IF audioCtx # "null" THEN audioCtx
    ELSE IF ctor = "throws" THEN "null" ELSE ctor

\* line 22 is reached and `new AudioContextClass()` returns a context
ConstructsAlways(ctor) == ctor # "throws"
Constructs(ctor) == audioCtx = "null" /\ ctor # "throws"

initialize(ctor) ==
    /\ audioCtx' = InitializeCtx(ctor)
    /\ contexts' = contexts + IF Constructs(ctor) THEN 1 ELSE 0
    /\ thrown' = IF InitializeThrows(ctor) THEN thrown \cup {"initialize"} ELSE thrown
    /\ lastOp' = Call("initialize", 0, 0, FALSE)
    /\ UNCHANGED <<isPlaying, isMuted, nodeVars, created, masterVars, targetVars,
                   awaiting, histVars, timeVars>>

Initialize(ctor) == UNCHANGED otherThanAudio /\ initialize(ctor)

(***************************************************************************)
(* start(), lines 26-105                                                   *)
(***************************************************************************)
\* audio parameter values, scaled by Den
Half == Den \div 2
\* line 44: this.isMuted ? 0 : 0.5
FadeInTargetAlwaysNominal(muted) == Half
FadeInTarget(muted) == IF muted THEN 0 ELSE Half

\* line 44: now + 3
FadeInTime == 3

\* the k-th creation call was reached and returned a node
Made(role, failAt) == failAt = 0 \/ StepOf(role) < failAt

\* lines 35-104: isPlaying is set first, then the nodes are created in order
\* until the call numbered failAt throws
Build(failAt) ==
    /\ isPlaying' = TRUE
    /\ masterGain' = (masterGain \/ Made("masterGain", failAt))
    /\ delayNode' = (delayNode \/ Made("delayNode", failAt))
    /\ delayGain' = (delayGain \/ Made("delayGain", failAt))
    /\ filterNode' = (filterNode \/ Made("filterNode", failAt))
    /\ oscSub' = (oscSub \/ Made("oscSub", failAt))
    /\ oscLow' = (oscLow \/ Made("oscLow", failAt))
    /\ pannerLow' = (pannerLow \/ Made("pannerLow", failAt))
    /\ oscHigh' = (oscHigh \/ Made("oscHigh", failAt))
    /\ pannerHigh' = (pannerHigh \/ Made("pannerHigh", failAt))
    /\ created' = [r \in Roles |-> created[r] + IF Made(r, failAt) THEN 1 ELSE 0]
    /\ masterStart' = IF Made("masterGain", failAt) THEN 0 ELSE masterStart
    /\ fadeInTarget' = IF Made("masterGain", failAt) THEN FadeInTarget(isMuted)
                       ELSE fadeInTarget
    /\ rampEnd' = IF Made("masterGain", failAt) THEN currentTime + FadeInTime ELSE rampEnd
    /\ gain' = IF Made("masterGain", failAt) THEN 0 ELSE gain
    /\ UNCHANGED <<masterTarget, targetAt, currentTime>>

\* line 34: if (this.isPlaying) return;
AlreadyPlayingIgnored == FALSE
AlreadyPlaying == isPlaying

\* lines 34-104, run by the call `call` (synchronously, or when its await returns)
Proceed(call, failAt) ==
    IF AlreadyPlaying
    THEN /\ lastStart' = Finished("ok", call, TRUE)
         /\ UNCHANGED <<isPlaying, nodeVars, created, masterVars, failureSeen, timeVars>>
    ELSE /\ Build(failAt)
         /\ lastStart' = Finished(IF failAt = 0 THEN "ok" ELSE "rejected", call, FALSE)
         /\ failureSeen' = (failureSeen \/ failAt # 0)

\* start() is called: lines 27-32, and lines 34-104 when it does not await.
\* start is an async function: an exception inside it rejects its promise.
start(ctor, failAt) ==
    /\ lastOp' = Call("start", 0, 0, FALSE)
    /\ audioCtx' = InitializeCtx(ctor)
    /\ contexts' = contexts + IF Constructs(ctor) THEN 1 ELSE 0
    /\ UNCHANGED <<isMuted, targetVars, thrown>>
    /\ IF InitializeThrows(ctor)
       THEN /\ lastStart' = Finished("rejected", ThisCall, FALSE)
            /\ failureSeen' = TRUE
            /\ UNCHANGED <<isPlaying, nodeVars, created, masterVars, awaiting, timeVars>>
       ELSE IF InitializeCtx(ctor) = "suspended"
       THEN /\ Len(awaiting) < MaxPending
            /\ awaiting' = Append(awaiting, ThisCall)
            /\ UNCHANGED <<isPlaying, nodeVars, created, masterVars, histVars, timeVars>>
       ELSE /\ Proceed(ThisCall, failAt)
            /\ UNCHANGED awaiting

StartCall(ctor, failAt) == UNCHANGED otherThanAudio /\ start(ctor, failAt)

\* the oldest pending audioCtx.resume() resolves: line 31 returns, then lines 34-104
resumeResolved(failAt) ==
    /\ awaiting # <<>>
    /\ awaiting' = Tail(awaiting)
    /\ audioCtx' = "running"
    /\ lastOp' = Call("resume", 0, 0, FALSE)
    /\ Proceed(Head(awaiting), failAt)
    /\ UNCHANGED <<isMuted, targetVars, thrown, contexts>>

ResumeResolved(failAt) == UNCHANGED otherThanAudio /\ resumeResolved(failAt)

\* the oldest pending audioCtx.resume() rejects: the start() that awaits it rejects
resumeRejected ==
    /\ awaiting # <<>>
    /\ audioCtx = "suspended"
    /\ awaiting' = Tail(awaiting)
    /\ lastOp' = Call("resume", 0, 0, FALSE)
    /\ lastStart' = Finished("rejected", Head(awaiting), FALSE)
    /\ failureSeen' = TRUE
    /\ UNCHANGED <<audioCtx, isPlaying, isMuted, nodeVars, created, contexts,
                   masterVars, targetVars, thrown, timeVars>>

ResumeRejected == UNCHANGED otherThanAudio /\ resumeRejected

(***************************************************************************)
(* updateParams(x, y), lines 107-138, called with x = i/Grid and y = j/Grid *)
(***************************************************************************)
minFilter == 300
maxFilter == 6000
root == 110
\* x * Den, and x * x * Den, for x = i/Grid
Lin(i) == 10 * Grid * i
Sq(i) == 10 * i * i

\* line 118: minFilter + (maxFilter - minFilter) * (x * x)
TargetFreqLinear(i) == minFilter * Den + (maxFilter - minFilter) * Lin(i)
TargetFreq(i) == minFilter * Den + (maxFilter - minFilter) * Sq(i)
\* line 127: root + (y * 30)
TargetLow(j) == root * Den + 30 * Lin(j)
\* line 131: (root * 1.5) + (y * 35)
TargetHigh(j) == (root * 15 * Den) \div 10 + 35 * Lin(j)
\* line 136: 0.2 + (x * 0.3)
DelayFeedbackFalling(i) == (5 * Den - 3 * Lin(i)) \div 10
DelayFeedback(i) == (2 * Den + 3 * Lin(i)) \div 10

\* line 110: the engine has what updateParams drives
CanUpdate == audioCtx # "null" /\ filterNode /\ oscLow /\ oscHigh

UpdateParamsRebuilding(i, j) ==
    /\ UNCHANGED otherThanAudio
    /\ lastOp' = Call("updateParams", i, j, FALSE)
    /\ filterTarget' = TargetFreq(i)
    /\ oscLowTarget' = TargetLow(j)
    /\ oscHighTarget' = TargetHigh(j)
    /\ delayGainTarget' = DelayFeedback(i)
    /\ created' = [created EXCEPT !["oscLow"] = @ + 1]
    /\ UNCHANGED <<audioCtx, isPlaying, isMuted, nodeVars, contexts, masterVars,
                   awaiting, thrown, histVars, timeVars>>

updateParams(i, j) ==
    /\ lastOp' = Call("updateParams", i, j, FALSE)
    /\ IF ~CanUpdate
       THEN UNCHANGED targetVars
       ELSE /\ filterTarget' = TargetFreq(i)
            /\ oscLowTarget' = TargetLow(j)
            /\ oscHighTarget' = TargetHigh(j)
            /\ delayGainTarget' = IF delayGain THEN DelayFeedback(i) ELSE delayGainTarget
    /\ UNCHANGED <<audioCtx, isPlaying, isMuted, nodeVars, created, contexts,
                   masterVars, awaiting, thrown, histVars, timeVars>>

UpdateParams(i, j) == UNCHANGED otherThanAudio /\ updateParams(i, j)

(***************************************************************************)
(* toggleMute(muted), lines 140-151                                        *)
(***************************************************************************)
\* lines 146-150: the setTargetAtTime target
MuteTargetInverted(muted) == IF muted THEN Half ELSE 0
MuteTarget(muted) == IF muted THEN 0 ELSE Half

ToggleMuteStopping(muted) ==
    /\ UNCHANGED otherThanAudio
    /\ lastOp' = Call("toggleMute", 0, 0, muted)
    /\ isMuted' = muted
    /\ masterTarget' = IF audioCtx = "null" \/ ~masterGain THEN masterTarget
                       ELSE MuteTarget(muted)
    /\ isPlaying' = (isPlaying /\ ~muted)
    /\ oscSub' = (oscSub /\ ~muted)
    /\ oscLow' = (oscLow /\ ~muted)
    /\ oscHigh' = (oscHigh /\ ~muted)
    /\ UNCHANGED <<audioCtx, masterGain, delayNode, delayGain, filterNode, pannerLow,
                   pannerHigh, created, contexts, masterStart, fadeInTarget,
                   targetVars, awaiting, thrown, histVars, timeVars>>

toggleMute(muted) ==
    /\ lastOp' = Call("toggleMute", 0, 0, muted)
    /\ isMuted' = muted
    /\ masterTarget' = IF audioCtx = "null" \/ ~masterGain THEN masterTarget
                       ELSE MuteTarget(muted)
    /\ targetAt' = IF audioCtx = "null" \/ ~masterGain THEN targetAt ELSE currentTime
    /\ UNCHANGED <<audioCtx, isPlaying, nodeVars, created, contexts, masterStart,
                   fadeInTarget, targetVars, awaiting, thrown, histVars,
                   currentTime, rampEnd, gain>>

ToggleMute(muted) == UNCHANGED otherThanAudio /\ toggleMute(muted)

(***************************************************************************)
(* The platform: masterGain.gain as its automation events drive it, one    *)
(* second of audioCtx.currentTime at a time. The events are those of lines *)
(* 43-44 (setValueAtTime(0, now), linearRampToValueAtTime(v, now + 3)) and *)
(* of lines 147/149 (setTargetAtTime(v, now, 0.1)). Events are kept in     *)
(* time order; a ramp runs from the event before it to its own end time,   *)
(* so a setTargetAtTime placed before the end of the ramp is followed by   *)
(* the ramp. A setTargetAtTime at or after the end of the ramp approaches  *)
(* its target with time constant 0.1 s: one second later it is there.      *)
(***************************************************************************)
\* the last setTargetAtTime is the last event of masterGain.gain
TargetGoverns == targetAt # NoTime /\ targetAt >= rampEnd

GainNext ==
    IF ~masterGain THEN gain
    ELSE IF TargetGoverns THEN masterTarget
    ELSE IF currentTime + 1 >= rampEnd THEN fadeInTarget
    ELSE gain + (fadeInTarget - gain) \div (rampEnd - currentTime)

\* a second passes on a running context
Tick ==
    /\ UNCHANGED otherThanAudio
    /\ audioCtx = "running"
    /\ currentTime' = IF currentTime < MaxTime THEN currentTime + 1 ELSE currentTime
    /\ gain' = GainNext
    /\ UNCHANGED <<audioCtx, isPlaying, isMuted, nodeVars, created, contexts,
                   masterVars, targetVars, awaiting, thrown, lastOp, histVars,
                   rampEnd, targetAt>>

(***************************************************************************)
(* Layout: processedProjects, src/App.tsx lines 125-192                    *)
(* Coordinates are integers in units of 1/SCALE of a world unit.           *)
(***************************************************************************)
WORLD_WIDTH == 3000
WORLD_HEIGHT == 3000
TILE_SIZE == 320
margin == 400
iterations == 120
SCALE == 10

\* an optional field of a work record: <<>> when absent (undefined or null)
Absent == <<>>
Some(v) == <<v>>
\* a ?? b
CoalesceToZero(opt, dflt) == IF opt = Absent THEN 0 ELSE opt[1]
Coalesce(opt, dflt) == IF opt = Absent THEN dflt ELSE opt[1]
\* a score that is present and is not a number (a string such as "n/a" in
\* works.json), and what the arithmetic of lines 139-183 makes of it
NaN == 0 - 1000000

\* The work records the loaded lists are made of: the two corners of the
\* spec's scenario, a record with no score at all, a legacy record carrying
\* artScore, a record whose scores lie outside 0..100, and a record placed
\* 110 units from a corner record.
Pool == <<
    [title |-> "a", techScore |-> Some(0), musicScore |-> Some(100), artScore |-> Absent],
    [title |-> "b", techScore |-> Some(100), musicScore |-> Some(0), artScore |-> Absent],
    [title |-> "c", techScore |-> Absent, musicScore |-> Absent, artScore |-> Absent],
    [title |-> "d", techScore |-> Some(50), musicScore |-> Absent, artScore |-> Some(40)],
    [title |-> "e", techScore |-> Some(150), musicScore |-> Some(0 - 20), artScore |-> Absent],
    [title |-> "f", techScore |-> Some(100), musicScore |-> Some(5), artScore |-> Absent] >>

\* the lists of at most n records of the pool, given as lists of pool indices
RECURSIVE Picks(_)
Picks(n) ==
    IF n = 0 THEN {<<>>}
    ELSE LET shorter == Picks(n - 1) IN
         shorter \cup {Append(q, k) : q \in {r \in shorter : Len(r) = n - 1},
                                      k \in 1..Len(Pool)}
\* the work list a pick stands for: record k gets id k
ListOf(q) ==
    [k \in 1..Len(q) |->
        [id |-> k, title |-> Pool[q[k]].title, techScore |-> Pool[q[k]].techScore,
         musicScore |-> Pool[q[k]].musicScore, artScore |-> Pool[q[k]].artScore,
         audioUrl |-> Absent, date |-> Absent]]
Inputs == {ListOf(q) : q \in Picks(MaxItems)}

\* The works the playlists are made of: title, audio file, date as the two
\* numbers of MM/YY or MM/YYYY. The featured work (once as the code spells
\* it, once in other letters and with blanks around it), the Alpha-bend work
\* with the newest date of all, works dated with two-digit and four-digit
\* years, a work without date, and a work without audio.
Works == <<
    [title |-> "Inhibition/Exhibition I", audioUrl |-> Some("ie.mp3"), date |-> Some(<<3, 21>>)],
    [title |-> "Alpha-bend synchronisation", audioUrl |-> Some("ab.mp3"), date |-> Some(<<6, 2024>>)],
    [title |-> "Drift", audioUrl |-> Some("dr.mp3"), date |-> Some(<<11, 22>>)],
    [title |-> "Tide", audioUrl |-> Some("ti.mp3"), date |-> Some(<<5, 2023>>)],
    [title |-> "Score only", audioUrl |-> Absent, date |-> Some(<<1, 2025>>)],
    [title |-> " inhibition/exhibition i ", audioUrl |-> Some("ie2.mp3"), date |-> Absent],
    [title |-> "Early", audioUrl |-> Some("ea.mp3"), date |-> Absent] >>
WorksOf(q) ==
    [k \in 1..Len(q) |->
        [id |-> k, title |-> Works[q[k]].title, techScore |-> Absent,
         musicScore |-> Absent, artScore |-> Absent,
         audioUrl |-> Works[q[k]].audioUrl, date |-> Works[q[k]].date]]
Playlists ==
    {WorksOf(q) : q \in {<<3>>, <<3, 4>>, <<4, 1, 3>>, <<2, 3, 1, 4>>, <<2, 7, 4>>,
                         <<5, 3, 6, 4, 2>>}}

\* Lists whose records share a spot, and lists they are to be compared with
Crowded ==
    {ListOf(q) : q \in {<<>>, <<4>>, <<1, 1>>, <<3, 3>>, <<5, 5>>, <<2, 6>>, <<1, 2>>}}

\* Lists of one record whose three score fields are, each, absent, not a number,
\* or a number
ScoreLists ==
    {<<[id |-> 1, title |-> "s", techScore |-> t, musicScore |-> m, artScore |-> r,
        audioUrl |-> Absent, date |-> Absent]>> :
        t \in {Absent, Some(NaN), Some(30)},
        m \in {Absent, Some(NaN), Some(70)},
        r \in {Absent, Some(NaN), Some(40)}}

InitLayout ==
    /\ rawProjects = <<>>
    /\ nodes = <<>>
    /\ pass = 0
    /\ layoutPc = "idle"
    /\ processedProjects = <<>>
    /\ reloaded = FALSE
    /\ previous = <<>>

Min(a, b) == IF a < b THEN a ELSE b
Max(a, b) == IF a > b THEN a ELSE b

MapNodeUninverted(p) ==
    LET usableWidth == WORLD_WIDTH - (margin * 2)
        usableHeight == WORLD_HEIGHT - (margin * 2)
        techVal == Coalesce(p.techScore, 50)
        musicVal == Coalesce(p.musicScore, Coalesce(p.artScore, 50))
    IN [id |-> p.id, title |-> p.title, artScore |-> p.artScore,
        audioUrl |-> p.audioUrl, date |-> p.date,
        musicScore |-> musicVal, techScore |-> techVal,
        x |-> IF techVal = NaN THEN NaN
              ELSE margin * SCALE + (techVal * usableWidth * SCALE) \div 100,
        y |-> IF musicVal = NaN THEN NaN
              ELSE margin * SCALE + (musicVal * usableHeight * SCALE) \div 100]

\* lines 129-145: one record to its node
MapNode(p) ==
    LET usableWidth == WORLD_WIDTH - (margin * 2)
        usableHeight == WORLD_HEIGHT - (margin * 2)
        techVal == Coalesce(p.techScore, 50)
        musicVal == Coalesce(p.musicScore, Coalesce(p.artScore, 50))
    IN [id |-> p.id, title |-> p.title, artScore |-> p.artScore,
        audioUrl |-> p.audioUrl, date |-> p.date,
        musicScore |-> musicVal, techScore |-> techVal,
        x |-> IF techVal = NaN THEN NaN
              ELSE margin * SCALE + (techVal * usableWidth * SCALE) \div 100,
        y |-> IF musicVal = NaN THEN NaN
              ELSE margin * SCALE + ((100 - musicVal) * usableHeight * SCALE) \div 100]

\* Math.sqrt of line 162 on scaled values, rounded down to the model's resolution
RECURSIVE SqrtSearch(_, _, _)
SqrtSearch(n, lo, hi) ==
    IF lo >= hi THEN lo
    ELSE LET mid == (lo + hi + 1) \div 2 IN
         IF mid * mid <= n THEN SqrtSearch(n, mid, hi) ELSE SqrtSearch(n, lo, mid - 1)
Sqrt(n) == SqrtSearch(n, 0, TILE_SIZE * SCALE)

Abs(v) == IF v < 0 THEN 0 - v ELSE v

\* line 161: distSq < minDist * minDist (decided without forming a square
\* larger than minDist * minDist)
Colliding(dx, dy) ==
    LET minDist == TILE_SIZE * SCALE IN
    /\ Abs(dx) < minDist
    /\ Abs(dy) < minDist
    /\ dx * dx + dy * dy < minDist * minDist

\* lines 162-170: the displacement along one axis, nx * force, for the
\* component d of the vector between two colliding nodes
PushHalf(d, distSq) ==
    LET root2 == Sqrt(distSq)
        dist == IF root2 = 0 THEN SCALE \div 10 ELSE root2
        overlap == TILE_SIZE * SCALE - dist
    IN (d * overlap * 4) \div (dist * 10)
Push(d, distSq) ==
    LET root2 == Sqrt(distSq)
        dist == IF root2 = 0 THEN SCALE \div 10 ELSE root2
        overlap == TILE_SIZE * SCALE - dist
    IN (d * overlap * 8) \div (dist * 10)

\* a node with a coordinate that is not a number: distSq is NaN, and line 160,
\* NaN < minDist * minDist, is false
Unplaced(n) == n.x = NaN \/ n.y = NaN

\* lines 153-176: the body of the pair loop for a < b
Repel(ns, a, b) ==
    LET dx == ns[a].x - ns[b].x
        dy == ns[a].y - ns[b].y
    IN IF Unplaced(ns[a]) \/ Unplaced(ns[b]) \/ ~Colliding(dx, dy) THEN ns
       ELSE LET px == Push(dx, dx * dx + dy * dy)
                py == Push(dy, dx * dx + dy * dy)
            IN [ns EXCEPT ![a].x = @ + px, ![a].y = @ + py,
                          ![b].x = @ - px, ![b].y = @ - py]

\* lines 151-178: for a, for b > a, in that order, each pair on the list as
\* the earlier pairs left it
RECURSIVE RepelFrom(_, _, _)
RepelFrom(ns, a, b) ==
    IF a > Len(ns) THEN ns
    ELSE IF b > Len(ns) THEN RepelFrom(ns, a + 1, a + 2)
    ELSE RepelFrom(Repel(ns, a, b), a, b + 1)

\* lines 182-183: Math.max(200, Math.min(WORLD - 200, v))
ClampSkipped(v, world) == v
ClampInset(v, world) ==
    IF v = NaN THEN NaN ELSE Max(500 * SCALE, Min((world - 500) * SCALE, v))
ClampToWorld(v, world) == IF v = NaN THEN NaN ELSE Max(0, Min(world * SCALE, v))
Clamp(v, world) ==
    IF v = NaN THEN NaN ELSE Max(200 * SCALE, Min((world - 200) * SCALE, v))

\* lines 181-184
ClampAll(ns) ==
    [k \in 1..Len(ns) |->
        [ns[k] EXCEPT !.x = Clamp(@, WORLD_WIDTH), !.y = Clamp(@, WORLD_HEIGHT)]]

\* setRawProjects(data) (lines 92, 103, 447): a work list is loaded or edited;
\* data is a new array, whose records may equal those of the array before.
\* The render that follows recomputes processedProjects (dependency
\* [rawProjects], line 192); until it has, the list memoized for the previous
\* rawProjects is seen by nobody and is dropped here.
setRawProjects(list) ==
    /\ layoutPc = "done"
    /\ rawProjects' = list
    /\ layoutPc' = "idle"
    /\ processedProjects' = <<>>
    /\ reloaded' = (list = rawProjects)
    /\ previous' = IF list = rawProjects THEN processedProjects ELSE <<>>
    /\ UNCHANGED <<nodes, pass>>

SetRawProjects(list) == UNCHANGED otherThanLayout /\ setRawProjects(list)

LayoutMapInPlace ==
    /\ UNCHANGED otherThanLayout
    /\ layoutPc = "idle"
    /\ pass' = 0
    /\ IF Len(rawProjects) = 0
       THEN /\ processedProjects' = <<>>
            /\ layoutPc' = "done"
            /\ UNCHANGED <<nodes, rawProjects>>
       ELSE /\ nodes' = [k \in 1..Len(rawProjects) |-> MapNode(rawProjects[k])]
            /\ rawProjects' =
                   [k \in 1..Len(rawProjects) |->
                       [rawProjects[k] EXCEPT
                           !.techScore = Some(MapNode(rawProjects[k]).techScore),
                           !.musicScore = Some(MapNode(rawProjects[k]).musicScore)]]
            /\ layoutPc' = "running"
            /\ UNCHANGED processedProjects
    /\ UNCHANGED <<reloaded, previous>>

\* lines 126-148: the useMemo callback starts
LayoutMap ==
    /\ UNCHANGED otherThanLayout
    /\ layoutPc = "idle"
    /\ pass' = 0
    /\ IF Len(rawProjects) = 0
       THEN /\ processedProjects' = <<>>
            /\ layoutPc' = "done"
            /\ UNCHANGED nodes
       ELSE /\ nodes' = [k \in 1..Len(rawProjects) |-> MapNode(rawProjects[k])]
            /\ layoutPc' = "running"
            /\ UNCHANGED processedProjects
    /\ UNCHANGED <<rawProjects, reloaded, previous>>

\* lines 150-185: one pass of the outer loop
LayoutPass ==
    /\ UNCHANGED otherThanLayout
    /\ layoutPc = "running"
    /\ pass < iterations
    /\ nodes' = ClampAll(RepelFrom(nodes, 1, 2))
    /\ pass' = pass + 1
    /\ UNCHANGED <<rawProjects, layoutPc, processedProjects, reloaded, previous>>

LayoutReturnWhenSeparated ==
    /\ UNCHANGED otherThanLayout
    /\ layoutPc = "running"
    /\ pass >= iterations
    /\ \A a \in 1..Len(nodes), b \in 1..Len(nodes) :
           a < b => ~Colliding(nodes[a].x - nodes[b].x, nodes[a].y - nodes[b].y)
    /\ processedProjects' = nodes
    /\ layoutPc' = "done"
    /\ nodes' = <<>>
    /\ pass' = 0
    /\ UNCHANGED <<rawProjects, reloaded, previous>>

LayoutReturnReversed ==
    /\ UNCHANGED otherThanLayout
    /\ layoutPc = "running"
    /\ pass >= iterations
    /\ processedProjects' = [k \in 1..Len(nodes) |-> nodes[Len(nodes) + 1 - k]]
    /\ layoutPc' = "done"
    /\ nodes' = <<>>
    /\ pass' = 0
    /\ UNCHANGED <<rawProjects, reloaded, previous>>

\* lines 187-191: the loop is over, the callback returns the nodes and its
\* locals are gone
LayoutReturn ==
    /\ UNCHANGED otherThanLayout
    /\ layoutPc = "running"
    /\ pass >= iterations
    /\ processedProjects' = nodes
    /\ layoutPc' = "done"
    /\ nodes' = <<>>
    /\ pass' = 0
    /\ UNCHANGED <<rawProjects, reloaded, previous>>


(***************************************************************************)
(* App: mounting, loading, Enter. A handler, the render that follows it    *)
(* and the effects of that render are one step: they run without another   *)
(* event in between.                                                       *)
(***************************************************************************)
NoProject == 0

InitApp ==
    /\ mounted = FALSE
    /\ isLoading = TRUE
    /\ hasStarted = FALSE
    /\ appIsMuted = FALSE
    /\ hash = "none"
    /\ appPc = "idle"
    /\ callers = <<>>
    /\ zoom = "between"
    /\ rafRef = FALSE
    /\ frames = 0
    /\ listening = FALSE
    /\ scrollLeft = 0 /\ scrollTop = 0
    /\ maxScrollX = 0 /\ maxScrollY = 0
    /\ unseen = 0
    /\ playingProject = NoProject
    /\ isAudioPlaying = FALSE
    /\ playlistHistory = {}
    /\ run = <<>>

\* Node-creation failures the App specifications draw from: none, or one in
\* the middle of the chain
SomeFailPoints == {0, StepOf("oscLow")}

\* start() reaches line 31 and awaits
Awaits(ctor) == ~InitializeThrows(ctor) /\ InitializeCtx(ctor) = "suspended"
\* the callers of the suspended start() calls, after `who` has called start()
Called(who, ctor) == IF Awaits(ctor) THEN Append(callers, who) ELSE callers

\* lines 690-706, deps [hasStarted, zoom]: the cleanup of the previous run
\* (line 704: the pending frame is cancelled, rafRef.current keeps its id),
\* then the effect again, which finds the container or not
ListenerEffect ==
    /\ frames' = IF rafRef THEN 0 ELSE frames
    /\ listening' = ~isLoading
    /\ UNCHANGED rafRef

\* the page is rendered and no handler is running
Idle == mounted /\ ~isLoading /\ layoutPc = "done" /\ appPc = "idle"

\* The first render and its effects. App is entered at a #project/ link
\* (direct) or not: line 22, and the effect of lines 507-513. The listener
\* effect runs while the container is not rendered (line 749).
Mount(direct, ctor, failAt) ==
    /\ ~mounted
    /\ layoutPc = "done"
    /\ mounted' = TRUE
    /\ hasStarted' = direct
    /\ hash' = IF direct THEN "project" ELSE "none"
    /\ IF direct
       THEN start(ctor, failAt) /\ callers' = Called("effect", ctor)
       ELSE UNCHANGED <<audioVars, callers>>
    /\ listening' = FALSE
    /\ UNCHANGED <<isLoading, appPc, appIsMuted, zoom, rafRef, frames, scrollLeft,
                   scrollTop, maxScrollX, maxScrollY, unseen, playVars, layoutVars>>

\* lines 85-112: the work list has arrived
Loaded(list) ==
    /\ mounted /\ isLoading /\ appPc = "idle"
    /\ setRawProjects(list)
    /\ isLoading' = FALSE
    /\ UNCHANGED <<mounted, hasStarted, hash, appPc, callers, appIsMuted, scrollVars,
                   playVars, audioVars>>

\* lines 708-709: Enter is clicked; startExperience runs up to its await
StartExperience(ctor, failAt) ==
    /\ Idle /\ ~hasStarted
    /\ start(ctor, failAt)
    /\ callers' = Called("enter", ctor)
    /\ appPc' = IF ~Awaits(ctor) /\ lastStart'.outcome = "ok" THEN "afterStart" ELSE "idle"
    /\ UNCHANGED <<mounted, isLoading, hasStarted, hash, appIsMuted, scrollVars,
                   playVars, layoutVars>>

\* line 710 and the render after it: hasStarted changes, the listener effect
\* runs again; the effect of lines 507-513 finds no #project/ link
EnterContinues ==
    /\ appPc = "afterStart" /\ layoutPc = "done"
    /\ appPc' = "idle"
    /\ hasStarted' = TRUE
    /\ IF hasStarted THEN UNCHANGED <<frames, listening, rafRef>> ELSE ListenerEffect
    /\ UNCHANGED <<mounted, isLoading, hash, callers, appIsMuted, zoom, scrollLeft,
                   scrollTop, maxScrollX, maxScrollY, unseen, playVars, layoutVars,
                   audioVars>>

\* a suspended start() goes on; startExperience goes on after it, the effect
\* of lines 507-513 only logs a failure
StartResumes(failAt) ==
    /\ appPc = "idle" /\ layoutPc = "done"
    /\ resumeResolved(failAt)
    /\ callers' = Tail(callers)
    /\ appPc' = IF Head(callers) = "enter" /\ lastStart'.outcome = "ok"
                THEN "afterStart" ELSE "idle"
    /\ UNCHANGED <<mounted, isLoading, hasStarted, hash, appIsMuted, scrollVars,
                   playVars, layoutVars>>

StartFails ==
    /\ appPc = "idle" /\ layoutPc = "done"
    /\ resumeRejected
    /\ callers' = Tail(callers)
    /\ UNCHANGED <<mounted, isLoading, hasStarted, hash, appPc, appIsMuted, scrollVars,
                   playVars, layoutVars>>

(***************************************************************************)
(* App: scrolling, lines 266-311 and 690-747                               *)
(***************************************************************************)
\* the scroll ranges the window and the zoom may leave: none, or two steps
\* (the places 0, 1, 2: one end, the middle, the other end)
ScrollRanges == {0, 2}
Places == 0..2
\* scroll events told apart since the last updateState
MaxScrolls == 2

\* lines 282-283, as a grid index: pos / max, or 0.5
RatioOrZero(pos, max) == IF max > 0 THEN (pos * Grid) \div max ELSE 0
Ratio(pos, max) == IF max > 0 THEN (pos * Grid) \div max ELSE HalfGrid

\* lines 266-298, reading the container as it is now; hasStarted is the one
\* of the render that attached the listeners, which is the current one
updateState(sl, st, mx, my) ==
    IF isLoading THEN UNCHANGED <<audioVars, unseen>>
    ELSE /\ unseen' = 0
         /\ IF hasStarted
            THEN updateParams(Ratio(sl, mx), Grid - Ratio(st, my))
            ELSE UNCHANGED audioVars

\* line 301: a frame is requested unless rafRef.current holds an id
RequestsAlways == TRUE
Requests == ~rafRef

\* lines 300-306, up to the request
onScroll ==
    IF listening /\ Requests
    THEN rafRef' = TRUE /\ frames' = frames + 1
    ELSE UNCHANGED <<rafRef, frames>>

\* the container is scrolled, by the user or by scrollTo, to another place
Scroll(sl, st) ==
    /\ Idle
    /\ sl <= maxScrollX /\ st <= maxScrollY
    /\ <<sl, st>> # <<scrollLeft, scrollTop>>
    /\ scrollLeft' = sl /\ scrollTop' = st
    /\ onScroll
    /\ unseen' = IF hasStarted /\ unseen < MaxScrolls THEN unseen + 1 ELSE unseen
    /\ UNCHANGED <<coreVars, appIsMuted, zoom, listening, maxScrollX, maxScrollY,
                   playVars, layoutVars, audioVars>>

\* lines 302-305: the frame callback of onScroll
Frame ==
    /\ appPc = "idle" /\ layoutPc = "done"
    /\ frames > 0
    /\ updateState(scrollLeft, scrollTop, maxScrollX, maxScrollY)
    /\ rafRef' = FALSE
    /\ frames' = frames - 1
    /\ UNCHANGED <<coreVars, appIsMuted, zoom, listening, scrollLeft, scrollTop,
                   maxScrollX, maxScrollY, playVars, layoutVars>>

\* lines 308-311: the window is resized; the scroll ranges change and the
\* browser keeps the position inside them
Resize(mx, my) ==
    /\ mounted /\ appPc = "idle" /\ layoutPc = "done"
    /\ maxScrollX' = mx /\ maxScrollY' = my
    /\ scrollLeft' = Min(scrollLeft, mx) /\ scrollTop' = Min(scrollTop, my)
    /\ updateState(Min(scrollLeft, mx), Min(scrollTop, my), mx, my)
    /\ UNCHANGED <<coreVars, appIsMuted, zoom, rafRef, frames, listening, playVars,
                   layoutVars>>

\* line 729, Math.min(1.5, Math.max(0.4, zoom + delta)) for delta = -0.1 or
\* 0.1 (lines 973, 982), with zoom told apart as at its lower limit, at its
\* upper limit, or between the two: the levels zoom + delta may be, and
\* whether it differs from zoom
ZoomedTo(delta) ==
    IF delta < 0
    THEN IF zoom = "min" THEN {"min"}
         ELSE IF zoom = "max" THEN {"between"} ELSE {"between", "min"}
    ELSE IF zoom = "max" THEN {"max"}
         ELSE IF zoom = "min" THEN {"between"} ELSE {"between", "max"}
ZoomChanges(delta) == ~(zoom = "min" /\ delta < 0) /\ ~(zoom = "max" /\ delta > 0)

\* lines 725-747: a zoom button (lines 973, 982); the world is rendered at
\* the new zoom, and the listener effect runs again when zoom has changed
Zoom(delta, mx, my) ==
    /\ Idle /\ hasStarted
    /\ zoom' \in ZoomedTo(delta)
    /\ IF ~ZoomChanges(delta)
       THEN UNCHANGED <<frames, listening, rafRef, maxScrollX, maxScrollY, scrollLeft,
                        scrollTop>>
       ELSE /\ ListenerEffect
            /\ maxScrollX' = mx /\ maxScrollY' = my
            /\ scrollLeft' = Min(scrollLeft, mx) /\ scrollTop' = Min(scrollTop, my)
    /\ UNCHANGED <<coreVars, appIsMuted, unseen, playVars, layoutVars, audioVars>>

(***************************************************************************)
(* App: the ambient mute, lines 345-358, and the deep link, lines 576-640  *)
(***************************************************************************)
\* lines 352-358
handleMuteRequest ==
    IF ~appIsMuted
    THEN appIsMuted' = TRUE /\ toggleMute(TRUE)
    ELSE UNCHANGED <<appIsMuted, audioVars>>

\* lines 345-350: the mute button of the minimap (rendered when hasStarted)
ToggleMuteClick ==
    /\ Idle /\ hasStarted
    /\ appIsMuted' = ~appIsMuted
    /\ toggleMute(~appIsMuted)
    /\ UNCHANGED <<coreVars, scrollVars, playVars, layoutVars>>

\* handleMuteRequest as the project panel calls it (the embedded player takes
\* the focus, or a video starts)
MuteRequest ==
    /\ Idle /\ hasStarted
    /\ handleMuteRequest
    /\ UNCHANGED <<coreVars, scrollVars, playVars, layoutVars>>

\* lines 576-640: the hash becomes a #project/ link of a loaded work. Lines
\* 617-621 when the experience has not started; then the render, in which
\* isDirectProjectAccess (line 20) is computed from the new hash, and the
\* effect of lines 507-513 when one of its dependencies has changed. The
\* timeout of lines 625-638 is a later callback that moves the scroll position
\* and asks for a frame of updateState; it leaves the mute state alone.
HashChange(ctor, failAt) ==
    /\ Idle
    /\ Len(processedProjects) > 0
    /\ hash' = "project"
    /\ hasStarted' = TRUE
    /\ appIsMuted' = (appIsMuted \/ ~hasStarted)
    /\ IF hasStarted THEN UNCHANGED <<frames, listening, rafRef>> ELSE ListenerEffect
    /\ IF ~hasStarted \/ hash = "none"
       THEN start(ctor, failAt) /\ callers' = Called("effect", ctor)
       ELSE UNCHANGED <<audioVars, callers>>
    /\ UNCHANGED <<mounted, isLoading, appPc, zoom, scrollLeft, scrollTop, maxScrollX,
                   maxScrollY, unseen, playVars, layoutVars>>

\* lines 642-648: the hash is cleared (the panel is closed); in the render
\* isDirectProjectAccess is false again
HashCleared ==
    /\ Idle
    /\ hash = "project"
    /\ hash' = "none"
    /\ UNCHANGED <<mounted, isLoading, hasStarted, appPc, callers, appIsMuted, scrollVars,
                   playVars, layoutVars, audioVars>>

(***************************************************************************)
(* App: the playlist, lines 361-443                                        *)
(***************************************************************************)
\* p.title.trim().toLowerCase() for the titles of Works
Normal(title) ==
    CASE title = "Inhibition/Exhibition I" -> "inhibition/exhibition i"
      [] title = " inhibition/exhibition i " -> "inhibition/exhibition i"
      [] title = "Alpha-bend synchronisation" -> "alpha-bend synchronisation"
      [] title = "Drift" -> "drift"
      [] title = "Tide" -> "tide"
      [] title = "Score only" -> "score only"
      [] title = "Early" -> "early"
      [] OTHER -> title
\* lines 390-391
isTitle(p, title) == Normal(p.title) = Normal(title)
featuredTitle == "Inhibition/Exhibition I"
alphaTitle == "Alpha-bend synchronisation"

\* lines 398-403: the time of the first day of the month, in months since
\* January 1970
parseDate(date) ==
    IF date = Absent THEN 0
    ELSE LET month == date[1][1]
             year == date[1][2]
             fullYear == IF year < 100 THEN 2000 + year ELSE year
         IN (fullYear - 1970) * 12 + (month - 1)

\* line 387
audioProjects == SelectSeq(processedProjects, LAMBDA p : p.audioUrl # Absent)
\* lines 394-395: Array.find, NoProject when there is none
Find(list, title) ==
    IF \E k \in 1..Len(list) : isTitle(list[k], title)
    THEN list[CHOOSE k \in 1..Len(list) :
                 isTitle(list[k], title) /\ \A j \in 1..(k - 1) : ~isTitle(list[j], title)].id
    ELSE NoProject
featuredProject == Find(audioProjects, featuredTitle)
alphaProject == Find(audioProjects, alphaTitle)

\* line 407: the comparator puts a before b when b is not newer
OldestFirst(a, b) == parseDate(a.date) <= parseDate(b.date)
NewestFirst(a, b) == parseDate(b.date) - parseDate(a.date) <= 0
\* Array.sort, which is stable: p goes behind the items that stay before it
RECURSIVE Insert(_, _)
Insert(sorted, p) ==
    IF sorted = <<>> THEN <<p>>
    ELSE IF NewestFirst(sorted[Len(sorted)], p) THEN Append(sorted, p)
    ELSE Append(Insert(SubSeq(sorted, 1, Len(sorted) - 1), p), sorted[Len(sorted)])
RECURSIVE Sort(_, _)
Sort(list, k) == IF k = 0 THEN <<>> ELSE Insert(Sort(list, k - 1), list[k])
\* lines 405-407
others ==
    LET rest == SelectSeq(audioProjects,
                          LAMBDA p : ~isTitle(p, featuredTitle) /\ ~isTitle(p, alphaTitle))
    IN Sort(rest, Len(rest))

\* line 381, and !playlistHistory.current.has(p.id) of lines 413, 421, 424
UnplayedAlways(id) == TRUE
Unplayed(id) == id \notin playlistHistory \cup {playingProject}

\* line 421: others.find(p => !playlistHistory.current.has(p.id))
FirstUnplayed(list) ==
    IF \E k \in 1..Len(list) : Unplayed(list[k].id)
    THEN list[CHOOSE k \in 1..Len(list) :
                 Unplayed(list[k].id) /\ \A j \in 1..(k - 1) : ~Unplayed(list[j].id)].id
    ELSE NoProject

\* lines 409-427
nextProject ==
    IF featuredProject # NoProject /\ Unplayed(featuredProject)
       /\ playingProject # featuredProject
    THEN featuredProject
    ELSE LET other == FirstUnplayed(others) IN
         IF other # NoProject THEN other
         ELSE IF alphaProject # NoProject /\ Unplayed(alphaProject) THEN alphaProject
         ELSE NoProject

\* lines 361-374: the play button of the panel of a work with audio
PlayAudio(k) ==
    /\ Idle /\ hasStarted
    /\ k \in 1..Len(processedProjects)
    /\ processedProjects[k].audioUrl # Absent
    /\ isAudioPlaying' = TRUE
    /\ IF playingProject = processedProjects[k].id
       THEN UNCHANGED <<playingProject, playlistHistory>>
       ELSE /\ playlistHistory' = {processedProjects[k].id}
            /\ playingProject' = processedProjects[k].id
    /\ run' = IF playingProject = processedProjects[k].id /\ run # <<>> THEN run
              ELSE <<processedProjects[k].id>>
    /\ handleMuteRequest
    /\ UNCHANGED <<coreVars, scrollVars, layoutVars>>

\* lines 441-443, and line 237 (play() was refused)
TogglePlay(shouldPlay) ==
    /\ Idle /\ hasStarted
    /\ playingProject # NoProject
    /\ isAudioPlaying' = shouldPlay
    /\ run' = IF shouldPlay /\ run = <<>> THEN <<playingProject>> ELSE run
    /\ UNCHANGED <<coreVars, appIsMuted, scrollVars, playingProject, playlistHistory,
                   layoutVars, audioVars>>

\* lines 377-440: the audio element has played its track to the end
AudioEnded ==
    /\ Idle
    /\ playingProject # NoProject
    /\ isAudioPlaying
    /\ IF nextProject # NoProject
       THEN /\ playlistHistory' = playlistHistory \cup {playingProject}
            /\ playingProject' = nextProject
            /\ isAudioPlaying' = TRUE
            /\ run' = Append(run, nextProject)
            /\ handleMuteRequest
       ELSE /\ isAudioPlaying' = FALSE
            /\ playlistHistory' = {}
            /\ run' = <<>>
            /\ UNCHANGED <<playingProject, appIsMuted, audioVars>>
    /\ UNCHANGED <<coreVars, scrollVars, layoutVars>>

(***************************************************************************)
(* Specifications                                                          *)
(***************************************************************************)
vars == <<audioVars, layoutVars, appVars>>

Init == InitAudio /\ InitLayout /\ InitApp

\* The audio engine under any sequence of calls and platform events
Next ==
    \/ \E ctor \in CtorOutcomes : Initialize(ctor)
    \/ \E ctor \in CtorOutcomes, failAt \in FailPoints : StartCall(ctor, failAt)
    \/ \E failAt \in FailPoints : ResumeResolved(failAt)
    \/ ResumeRejected
    \/ \E i \in 0..Grid, j \in 0..Grid : UpdateParams(i, j)
    \/ \E muted \in BOOLEAN : ToggleMute(muted)

Spec == Init /\ [][Next]_vars

\* The layout as work lists are loaded
NextLayout ==
    \/ \E list \in Inputs : SetRawProjects(list)
    \/ LayoutMap
    \/ LayoutPass
    \/ LayoutReturn

SpecLayout == Init /\ [][NextLayout]_vars

\* The audio engine as time passes: start, mute and unmute at any moment.
\* The clock of a running context does not stop.
NextFade ==
    \/ \E ctor \in CtorOutcomes, failAt \in FailPoints : StartCall(ctor, failAt)
    \/ \E failAt \in FailPoints : ResumeResolved(failAt)
    \/ ResumeRejected
    \/ \E muted \in BOOLEAN : ToggleMute(muted)
    \/ Tick

SpecFade == Init /\ [][NextFade]_vars

SpecFadeFair == SpecFade /\ WF_vars(Tick)

\* App as it is entered, scrolled, resized and zoomed. The browser runs a
\* requested frame callback, and a handler past its await goes on.
NextScroll ==
    \/ LayoutMap
    \/ \E direct \in BOOLEAN, ctor \in CtorOutcomes, failAt \in SomeFailPoints :
           Mount(direct, ctor, failAt)
    \/ Loaded(<<>>)
    \/ \E ctor \in CtorOutcomes, failAt \in SomeFailPoints : StartExperience(ctor, failAt)
    \/ EnterContinues
    \/ \E failAt \in SomeFailPoints : StartResumes(failAt)
    \/ StartFails
    \/ \E sl \in Places, st \in Places : Scroll(sl, st)
    \/ Frame
    \/ \E mx \in ScrollRanges, my \in ScrollRanges : Resize(mx, my)
    \/ \E delta \in {0 - 1, 1}, mx \in ScrollRanges, my \in ScrollRanges : Zoom(delta, mx, my)

SpecScroll == Init /\ [][NextScroll]_vars

SpecScrollFair == SpecScroll /\ WF_vars(Frame) /\ WF_vars(EnterContinues)

\* App as works are loaded, the experience is entered by Enter or by a deep
\* link, the ambient sound is muted and unmuted, and tracks are played
NextPlay ==
    \/ LayoutMap
    \/ LayoutPass
    \/ LayoutReturn
    \/ \E direct \in BOOLEAN, ctor \in CtorOutcomes, failAt \in SomeFailPoints :
           Mount(direct, ctor, failAt)
    \/ \E list \in Playlists : Loaded(list)
    \/ \E ctor \in CtorOutcomes, failAt \in SomeFailPoints : StartExperience(ctor, failAt)
    \/ EnterContinues
    \/ \E failAt \in SomeFailPoints : StartResumes(failAt)
    \/ StartFails
    \/ \E ctor \in CtorOutcomes, failAt \in SomeFailPoints : HashChange(ctor, failAt)
    \/ HashCleared
    \/ ToggleMuteClick
    \/ MuteRequest
    \/ \E k \in 1..5 : PlayAudio(k)
    \/ \E shouldPlay \in BOOLEAN : TogglePlay(shouldPlay)
    \/ AudioEnded

SpecPlay == Init /\ [][NextPlay]_vars

\* The playlist alone: works are loaded, the experience is entered, tracks
\* are chosen, paused, resumed, and played to their end
NextPlaylist ==
    \/ LayoutMap
    \/ LayoutPass
    \/ LayoutReturn
    \/ \E direct \in BOOLEAN, ctor \in CtorOutcomes, failAt \in SomeFailPoints :
           Mount(direct, ctor, failAt)
    \/ \E list \in Playlists : Loaded(list)
    \/ \E ctor \in CtorOutcomes, failAt \in SomeFailPoints : StartExperience(ctor, failAt)
    \/ EnterContinues
    \/ \E failAt \in SomeFailPoints : StartResumes(failAt)
    \/ StartFails
    \/ \E k \in 1..5 : PlayAudio(k)
    \/ \E shouldPlay \in BOOLEAN : TogglePlay(shouldPlay)
    \/ AudioEnded

SpecPlaylist == Init /\ [][NextPlaylist]_vars

\* The layout of single records, over every shape of the score fields
NextScores ==
    \/ \E list \in ScoreLists : SetRawProjects(list)
    \/ LayoutMap
    \/ LayoutPass
    \/ LayoutReturn

SpecScores == Init /\ [][NextScores]_vars

\* The layout of lists it cannot separate (records on one spot, in a corner, on
\* the clamp) next to lists it can. The useMemo callback is synchronous code:
\* once started it runs on to its return.
NextCrowded ==
    \/ \E list \in Crowded : SetRawProjects(list)
    \/ LayoutMap
    \/ LayoutPass
    \/ LayoutReturn

SpecCrowded == Init /\ [][NextCrowded]_vars

SpecCrowdedFair ==
    SpecCrowded /\ WF_vars(LayoutMap) /\ WF_vars(LayoutPass) /\ WF_vars(LayoutReturn)

(***************************************************************************)
(* What the claims speak of                                                *)
(***************************************************************************)
\* oscillator nodes ever created
Oscillators == created["oscSub"] + created["oscLow"] + created["oscHigh"]
\* every node of the signal chain of lines 42-104 is in place
GraphComplete ==
    /\ masterGain /\ delayNode /\ delayGain /\ filterNode
    /\ oscSub /\ oscLow /\ pannerLow /\ oscHigh /\ pannerHigh
    /\ \A r \in Roles : created[r] >= 1
\* the engine has been started: start() built the whole chain
Started == audioCtx # "null" /\ isPlaying /\ GraphComplete
\* the values ft, lt, ht, dt (scaled by Den) are the targets the mapping contract
\* gives for x = i/Grid, y = j/Grid
Contract(ft, lt, ht, dt, i, j) ==
    /\ ft * Grid * Grid = Den * (300 * Grid * Grid + 5700 * i * i)
    /\ lt * Grid = Den * (110 * Grid + 30 * j)
    /\ ht * Grid = Den * (165 * Grid + 35 * j)
    /\ dt * 10 * Grid = Den * (2 * Grid + 3 * i)

\* C1: however many start() calls are made and however they interleave with the
\* pending resume() of earlier ones, the chain is never built twice (at most 3
\* oscillators, one master gain, one filter, one delay are ever created), and
\* once a start() has returned in a run where no start() attempt failed, exactly
\* 3 oscillators, one master gain, one filter and one delay have been created.
C1_SingleBuild ==
    /\ Oscillators <= 3
    /\ created["masterGain"] <= 1
    /\ created["filterNode"] <= 1
    /\ created["delayNode"] <= 1
    /\ (lastStart.outcome = "ok" /\ ~failureSeen) =>
           /\ Oscillators = 3
           /\ created["masterGain"] = 1
           /\ created["filterNode"] = 1
           /\ created["delayNode"] = 1
\* a start() made while another was suspended at the await has returned at line 34,
\* and the chain exists once
C1_Witness ==
    /\ lastStart.outcome = "ok" /\ lastStart.overlapped /\ lastStart.early
    /\ ~failureSeen /\ Oscillators = 3 /\ created["masterGain"] = 1

\* squared distance, in squared model units, between items a and b of a list
DistSq(ns, a, b) ==
    (ns[a].x - ns[b].x) * (ns[a].x - ns[b].x) + (ns[a].y - ns[b].y) * (ns[a].y - ns[b].y)
\* v lies in [200, world - 200]
InWorld(v, world) == 200 * SCALE <= v /\ v <= (world - 200) * SCALE

\* C2: when the layout has returned, every two distinct output items are at
\* distance >= 320 - epsilon (epsilon = 1 world unit), for every input list of
\* at most MaxItems records, lists with identical scores included.
C2_Separation ==
    layoutPc = "done" =>
        \A a \in 1..Len(processedProjects), b \in 1..Len(processedProjects) :
            a < b => DistSq(processedProjects, a, b) >=
                         ((TILE_SIZE - 1) * SCALE) * ((TILE_SIZE - 1) * SCALE)

C4_NoSyncThrow == thrown = {}

\* C5: when a start() that was called after a failed start() attempt runs to its
\* end without meeting a failure, the complete signal chain is in place.
C5_Recoverable ==
    (lastStart.outcome = "ok" /\ lastStart.afterFailure) => GraphComplete

\* C6: right after updateParams(x, y) on a started engine, the four ramp targets
\* are cutoff = 300 + 5700 x^2, voice A = 110 + 30 y, voice B = 165 + 35 y and
\* feedback = 0.2 + 0.3 x; (0,0) gives cutoff 300, (1,1) gives 6000, 140 and 200.
C6_UpdateTargets ==
    (lastOp.op = "updateParams" /\ Started) =>
        /\ Contract(filterTarget, oscLowTarget, oscHighTarget, delayGainTarget,
                    lastOp.x, lastOp.y)
        /\ lastOp.x = 0 => filterTarget = 300 * Den
        /\ lastOp.x = Grid => filterTarget = 6000 * Den
        /\ lastOp.y = Grid => (oscLowTarget = 140 * Den /\ oscHighTarget = 200 * Den)
\* updateParams(1, 1) has just run on a started engine
C6_Witness ==
    /\ lastOp.op = "updateParams" /\ Started
    /\ lastOp.x = Grid /\ lastOp.y = Grid
    /\ filterTarget = 6000 * Den /\ oscLowTarget = 140 * Den

\* C7: an updateParams call made while the signal chain is not completely built
\* schedules no parameter target, creates no node and leaves isPlaying and
\* isMuted as they are.
C7_NoOpBeforeBuilt ==
    [][(lastOp'.op = "updateParams" /\ ~GraphComplete) =>
           UNCHANGED <<targetVars, masterVars, created, nodeVars, isPlaying, isMuted>>]_vars

\* C8: an updateParams call on a started engine creates no node and leaves the
\* nodes, the master gain automation, isPlaying and isMuted unchanged; what it
\* leaves behind is the contract's targets for its own arguments, so a call
\* repeated with the same arguments changes nothing at all.
C8_UpdateFrame ==
    [][(lastOp'.op = "updateParams" /\ Started) =>
           /\ UNCHANGED <<created, nodeVars, masterVars, isPlaying, isMuted,
                          audioCtx, awaiting>>
           /\ Contract(filterTarget', oscLowTarget', oscHighTarget',
                       delayGainTarget', lastOp'.x, lastOp'.y)
           /\ (lastOp.op = "updateParams" /\ lastOp'.x = lastOp.x
                   /\ lastOp'.y = lastOp.y) => UNCHANGED targetVars]_vars
\* updateParams has run on a started, muted engine whose master gain target is 0
C8_Witness ==
    /\ lastOp.op = "updateParams" /\ Started /\ isMuted
    /\ masterTarget = 0 /\ Oscillators = 3 /\ filterTarget # NoTarget

\* C9: right after toggleMute(m) on a started engine the mute flag is m and the
\* master gain target is 0 for m = true and 0.5 for m = false, and a second
\* toggleMute(m) right after it changes neither.
C9_ToggleMute ==
    /\ [](lastOp.op = "toggleMute" /\ Started =>
              /\ isMuted = lastOp.muted
              /\ lastOp.muted => masterTarget = 0
              /\ ~lastOp.muted => masterTarget * 2 = Den)
    /\ [][(lastOp.op = "toggleMute" /\ lastOp'.op = "toggleMute"
              /\ lastOp'.muted = lastOp.muted /\ Started) =>
              UNCHANGED <<isMuted, masterVars>>]_vars
\* toggleMute(false) has just run on a started engine
C9_Witness ==
    /\ lastOp.op = "toggleMute" /\ ~lastOp.muted /\ Started
    /\ masterTarget = Half /\ ~isMuted

\* C10: the step of start() that creates the master gain sets its value to 0 and
\* its fade-in target to 0 when the engine is muted and to 0.5 when it is not.
C10_FadeIn ==
    [][(~masterGain /\ masterGain') =>
           /\ masterStart' = 0
           /\ isMuted => fadeInTarget' = 0
           /\ ~isMuted => fadeInTarget' * 2 = Den]_vars
\* toggleMute(true) came before start(): the graph is built, the fade-in target is 0
\* and no setTargetAtTime has touched the master gain
C10_Witness ==
    /\ Started /\ isMuted /\ masterStart = 0 /\ fadeInTarget = 0
    /\ masterTarget = NoTarget

\* C11: at most one audio context is ever constructed, and one has been exactly
\* when the engine holds one; a step of initialize() constructs a context only
\* when the engine holds none, does construct one then unless initialize() has
\* thrown, and when the engine already holds a context it changes nothing of the
\* engine: not the context, not the flags, the nodes, the scheduled targets or
\* the pending start() calls.
C11_OneContext ==
    /\ [](contexts <= 1 /\ (audioCtx # "null" <=> contexts = 1))
    /\ [][lastOp'.op = "initialize" =>
              /\ contexts' # contexts => (audioCtx = "null" /\ contexts' = contexts + 1)
              /\ (audioCtx = "null" /\ "initialize" \notin thrown') =>
                     (audioCtx' # "null" /\ contexts' = contexts + 1)
              /\ audioCtx # "null" =>
                     UNCHANGED <<audioCtx, contexts, isPlaying, isMuted, nodeVars, created,
                                 masterVars, targetVars, awaiting, thrown, histVars>>]_vars
\* initialize() has just been called on a started engine, whose context start() made
C11_Witness ==
    /\ lastOp.op = "initialize" /\ Started /\ contexts = 1
    /\ lastStart.outcome = "ok"

\* C12: once the engine is started (context present, isPlaying true, whole chain
\* built) every later step - a call of initialize, start, updateParams or
\* toggleMute, or the end of a pending resume() - leaves it started: isPlaying
\* stays true, the context and every node stay in place, and no node is created
\* again; what may change is the mute flag and the scheduled targets.
C12_StaysRunning ==
    [][Started =>
           /\ Started'
           /\ isPlaying'
           /\ oscSub' /\ oscLow' /\ oscHigh'
           /\ UNCHANGED <<audioCtx, contexts, nodeVars, created, masterStart,
                          fadeInTarget>>]_vars
\* on a started engine that has since been muted and driven by updateParams,
\* start() has been called again and has returned at line 34
C12_Witness ==
    /\ Started /\ isMuted /\ masterTarget = 0 /\ filterTarget # NoTarget
    /\ lastOp.op = "start" /\ lastStart.early /\ lastStart.outcome = "ok"

C14_PassThrough ==
    layoutPc = "done" =>
        /\ Len(processedProjects) = Len(rawProjects)
        /\ \A k \in 1..Len(rawProjects) :
               /\ processedProjects[k].id = rawProjects[k].id
               /\ processedProjects[k].title = rawProjects[k].title
               /\ processedProjects[k].artScore = rawProjects[k].artScore
\* the layout has returned two different records, in the order of the input,
\* after moving the first
C14_Witness ==
    /\ layoutPc = "done" /\ Len(processedProjects) = 2
    /\ processedProjects[1].title = "b" /\ processedProjects[2].title = "f"
    /\ rawProjects[1].title = "b"
    /\ processedProjects[1].y > MapNode(rawProjects[1]).y

\* a score field that holds a number
IsNumber(opt) == opt # Absent /\ opt[1] # NaN
\* where the initial mapping puts the scores tech and expr (both in 0..100)
PlacedAt(item, tech, expr) ==
    /\ item.x * 100 = SCALE * (400 * 100 + tech * 2200)
    /\ item.y * 100 = SCALE * (400 * 100 + (100 - expr) * 2200)

InMargin(v, world) == margin * SCALE <= v /\ v <= (world - margin) * SCALE
\* both scores the record is placed by lie in 0..100
ScoresInRange(item) ==
    /\ 0 <= item.techScore /\ item.techScore <= 100
    /\ 0 <= item.musicScore /\ item.musicScore <= 100

\* C16 as it is stated: every item of the returned list has x in
\* [margin, WORLD_WIDTH - margin] and y in [margin, WORLD_HEIGHT - margin].
C16_InsideMargin ==
    layoutPc = "done" =>
        \A k \in 1..Len(processedProjects) :
            /\ InMargin(processedProjects[k].x, WORLD_WIDTH)
            /\ InMargin(processedProjects[k].y, WORLD_HEIGHT)

\* C16, amended: the initial mapping puts every record whose scores lie in
\* 0..100 inside [margin, WORLD - margin] on both axes; the returned items lie
\* inside [200, WORLD - 200] on both axes.
C16_MarginThenClamp ==
    /\ (layoutPc = "running" /\ pass = 0) =>
           \A k \in 1..Len(nodes) :
               ScoresInRange(nodes[k]) =>
                   /\ InMargin(nodes[k].x, WORLD_WIDTH)
                   /\ InMargin(nodes[k].y, WORLD_HEIGHT)
    /\ layoutPc = "done" =>
           \A k \in 1..Len(processedProjects) :
               /\ 200 * SCALE <= processedProjects[k].x
               /\ processedProjects[k].x <= (WORLD_WIDTH - 200) * SCALE
               /\ 200 * SCALE <= processedProjects[k].y
               /\ processedProjects[k].y <= (WORLD_HEIGHT - 200) * SCALE
\* a record with scores in 0..100 has been pushed by its neighbour out of the
\* margin, and is returned between WORLD_HEIGHT - margin and WORLD_HEIGHT - 200
C16_Witness ==
    /\ layoutPc = "done"
    /\ \E k \in 1..Len(processedProjects) :
           /\ ScoresInRange(processedProjects[k])
           /\ processedProjects[k].y > (WORLD_HEIGHT - margin) * SCALE
           /\ processedProjects[k].y < (WORLD_HEIGHT - 200) * SCALE

\* C17: right after the initial mapping, every node lies at
\* x = 400 + techScore/100 * 2200, y = 400 + (100 - musicScore)/100 * 2200; of two
\* nodes with scores in 0..100 the one with the larger techScore has the larger
\* or equal x and the one with the larger musicScore the smaller or equal y;
\* scores (0, 100) lie at (400, 400) and scores (100, 0) at (2600, 2600).
C17_InitialPlacement ==
    (layoutPc = "running" /\ pass = 0) =>
        /\ \A k \in 1..Len(nodes) :
               /\ PlacedAt(nodes[k], nodes[k].techScore, nodes[k].musicScore)
               /\ (nodes[k].techScore = 0 /\ nodes[k].musicScore = 100) =>
                      (nodes[k].x = 400 * SCALE /\ nodes[k].y = 400 * SCALE)
               /\ (nodes[k].techScore = 100 /\ nodes[k].musicScore = 0) =>
                      (nodes[k].x = 2600 * SCALE /\ nodes[k].y = 2600 * SCALE)
        /\ \A j \in 1..Len(nodes), k \in 1..Len(nodes) :
               (ScoresInRange(nodes[j]) /\ ScoresInRange(nodes[k])) =>
                   /\ nodes[j].techScore <= nodes[k].techScore => nodes[j].x <= nodes[k].x
                   /\ nodes[j].musicScore <= nodes[k].musicScore => nodes[j].y >= nodes[k].y
\* the records "a" (0, 100) and "b" (100, 0) have just been mapped, to
\* (400, 400) and (2600, 2600)
C17_Witness ==
    /\ layoutPc = "running" /\ pass = 0 /\ Len(nodes) = 2
    /\ nodes[1].techScore = 0 /\ nodes[1].musicScore = 100
    /\ nodes[2].techScore = 100 /\ nodes[2].musicScore = 0
    /\ nodes[1].x = 400 * SCALE /\ nodes[1].y = 400 * SCALE
    /\ nodes[2].x = 2600 * SCALE /\ nodes[2].y = 2600 * SCALE

\* C18: of two updateParams calls made one after the other on a started engine,
\* the one with the larger or equal x leaves the larger or equal filter cutoff
\* target and delay feedback target, and the one with the larger or equal y
\* leaves the larger or equal target for each of the two voice frequencies.
C18_Monotone ==
    [][(lastOp.op = "updateParams" /\ lastOp'.op = "updateParams" /\ Started) =>
           /\ lastOp.x <= lastOp'.x =>
                  (filterTarget <= filterTarget' /\ delayGainTarget <= delayGainTarget')
           /\ lastOp.x >= lastOp'.x =>
                  (filterTarget >= filterTarget' /\ delayGainTarget >= delayGainTarget')
           /\ lastOp.y <= lastOp'.y =>
                  (oscLowTarget <= oscLowTarget' /\ oscHighTarget <= oscHighTarget')
           /\ lastOp.y >= lastOp'.y =>
                  (oscLowTarget >= oscLowTarget' /\ oscHighTarget >= oscHighTarget')]_vars
\* updateParams(1/Grid, 1) has just run on a started engine: the targets lie
\* strictly between those of x = 0 and x = 1, and the voices are at their highest
C18_Witness ==
    /\ lastOp.op = "updateParams" /\ Started /\ lastOp.x = 1 /\ lastOp.y = Grid
    /\ 300 * Den < filterTarget /\ filterTarget < 6000 * Den
    /\ 2 * Den < 10 * delayGainTarget /\ 10 * delayGainTarget < 5 * Den
    /\ oscLowTarget = 140 * Den /\ oscHighTarget = 200 * Den

\* C19: every run of the layout that has started comes to its return; the loop
\* counter never exceeds 120, every step inside the loop is one more pass, and
\* the return happens after pass 120 and no earlier, whether or not the nodes
\* are separated by then.
C19_Terminates ==
    /\ (layoutPc = "idle") ~> (layoutPc = "done")
    /\ [](pass <= iterations)
    /\ [][(layoutPc = "running" /\ layoutPc' = "running") =>
              (pass < iterations /\ pass' = pass + 1)]_vars
    /\ [][(layoutPc = "running" /\ layoutPc' = "done") => pass = 120]_vars
\* the layout has returned two records that still lie on the same spot
C19_Witness ==
    /\ layoutPc = "done" /\ Len(processedProjects) = 2
    /\ DistSq(processedProjects, 1, 2) = 0

\* distance between items a and b of a list (at most 2 * TILE_SIZE), rounded
\* down to the model's resolution
Dist(ns, a, b) == SqrtSearch(DistSq(ns, a, b), 0, 2 * TILE_SIZE * SCALE)
\* a pass on a list of two nodes that collide and do not lie on one spot: the
\* pass is one step of lines 155-175 on the pair, then the clamp
PairStep ==
    /\ layoutPc = "running" /\ layoutPc' = "running" /\ pass' = pass + 1
    /\ Len(nodes) = 2
    /\ Colliding(nodes[1].x - nodes[2].x, nodes[1].y - nodes[2].y)
    /\ DistSq(nodes, 1, 2) > 0
\* after the pass node k does not lie on the clamp: lines 182-183 have not moved it
Unclamped(k) ==
    /\ 200 * SCALE < nodes'[k].x /\ nodes'[k].x < (WORLD_WIDTH - 200) * SCALE
    /\ 200 * SCALE < nodes'[k].y /\ nodes'[k].y < (WORLD_HEIGHT - 200) * SCALE
\* In such a step each node moves along the line that joins the two, away from
\* the other, by tenths/10 * (320 - d); the two move by opposite vectors, so
\* that their distance grows by twice that; all within 0.4 world units of
\* rounding, and for a node the clamp has not moved.
MovesApartBy(tenths) ==
    LET d == Dist(nodes, 1, 2) IN
    /\ \A k \in 1..2 :
           LET dx == nodes[k].x - nodes[3 - k].x
               dy == nodes[k].y - nodes[3 - k].y
               mx == nodes'[k].x - nodes[k].x
               my == nodes'[k].y - nodes[k].y
               moved == SqrtSearch(mx * mx + my * my, 0, 2 * TILE_SIZE * SCALE)
           IN Unclamped(k) =>
                  /\ Abs(mx * dy - my * dx) <= Abs(dx) + Abs(dy)
                  /\ mx * dx + my * dy > 0
                  /\ Abs(10 * moved - tenths * (TILE_SIZE * SCALE - d)) <= 4 * SCALE
    /\ (Unclamped(1) /\ Unclamped(2)) =>
           /\ nodes'[2].x - nodes[2].x = nodes[1].x - nodes'[1].x
           /\ nodes'[2].y - nodes[2].y = nodes[1].y - nodes'[1].y
           /\ Abs(10 * (Dist(nodes', 1, 2) - d) - 2 * tenths * (TILE_SIZE * SCALE - d))
                  <= 4 * SCALE

\* C20 as it is stated, for a pair at distance 0 < d < 320: in one repulsion
\* step the two items move in opposite directions along the line joining them,
\* each by 0.4 * (320 - d), and their distance grows by 0.8 * (320 - d).
C20_HalfEach == [][PairStep => MovesApartBy(4)]_vars

\* C20, amended: in one repulsion step on a pair at distance 0 < d < 320 the
\* two items move in opposite directions along the line joining them, each by
\* 0.8 * (320 - d), and their distance grows by 1.6 * (320 - d); a pair at
\* distance 0 is not moved by the step: after the pass the two are still on one
\* spot, the spot they were on unless the clamp has moved both.
C20_FullEach ==
    [][/\ PairStep => MovesApartBy(8)
       /\ (layoutPc = "running" /\ layoutPc' = "running" /\ Len(nodes) = 2
              /\ DistSq(nodes, 1, 2) = 0) =>
              /\ DistSq(nodes', 1, 2) = 0
              /\ (InWorld(nodes[1].x, WORLD_WIDTH) /\ InWorld(nodes[1].y, WORLD_HEIGHT))
                     => nodes' = nodes]_vars
\* the first pass has moved the records at (2600, 2600) and (2600, 2490), 110
\* apart, by 168 each, to (2600, 2768) and (2600, 2322)
C20_Witness ==
    /\ layoutPc = "running" /\ pass = 1 /\ Len(nodes) = 2
    /\ nodes[1].title = "b" /\ nodes[2].title = "f"
    /\ nodes[1].x = 2600 * SCALE /\ nodes[1].y = 2768 * SCALE
    /\ nodes[2].x = 2600 * SCALE /\ nodes[2].y = 2322 * SCALE

\* records a and b of rawProjects are mapped to one spot
SameSpot(a, b) ==
    /\ MapNode(rawProjects[a]).x = MapNode(rawProjects[b]).x
    /\ MapNode(rawProjects[a]).y = MapNode(rawProjects[b]).y

\* C21: when the layout has returned, two items whose records were mapped to
\* one spot have coordinates that are numbers and no longer lie on one spot.
C21_CoincidentResolved ==
    layoutPc = "done" =>
        \A a \in 1..Len(processedProjects), b \in 1..Len(processedProjects) :
            (a < b /\ SameSpot(a, b)) =>
                /\ ~Unplaced(processedProjects[a]) /\ ~Unplaced(processedProjects[b])
                /\ DistSq(processedProjects, a, b) > 0

\* C22: when every record has both scores in 0..100 and every two records are
\* mapped at least 320 apart, the returned items lie exactly where the initial
\* mapping put them.
C22_FarApartUnmoved ==
    (/\ layoutPc = "done"
     /\ \A k \in 1..Len(rawProjects) : ScoresInRange(MapNode(rawProjects[k]))
     /\ \A a \in 1..Len(rawProjects), b \in 1..Len(rawProjects) :
            a < b => (MapNode(rawProjects[a]).x - MapNode(rawProjects[b]).x)
                         * (MapNode(rawProjects[a]).x - MapNode(rawProjects[b]).x)
                     + (MapNode(rawProjects[a]).y - MapNode(rawProjects[b]).y)
                         * (MapNode(rawProjects[a]).y - MapNode(rawProjects[b]).y)
                     >= (320 * SCALE) * (320 * SCALE))
    => /\ Len(processedProjects) = Len(rawProjects)
       /\ \A k \in 1..Len(rawProjects) :
              /\ processedProjects[k].x = MapNode(rawProjects[k]).x
              /\ processedProjects[k].y = MapNode(rawProjects[k]).y
\* the records (0, 100) and no-score (50, 50), 1556 apart, have been returned
\* at (400, 400) and (1500, 1500)
C22_Witness ==
    /\ layoutPc = "done" /\ Len(processedProjects) = 2
    /\ rawProjects[1].title = "a" /\ rawProjects[2].title = "c"
    /\ processedProjects[1].x = 400 * SCALE /\ processedProjects[1].y = 400 * SCALE
    /\ processedProjects[2].x = 1500 * SCALE /\ processedProjects[2].y = 1500 * SCALE

\* C27: once the engine is started and muted for good (toggleMute(true) with no
\* later toggleMute(false)), the master gain settles at 0 and stays there,
\* whenever the call was made, the 3 seconds of the fade-in included
C27_MuteSettles == <>[](Started /\ isMuted) => <>[](gain = 0)

\* a step in which updateState runs
UpdateStateStep == Frame \/ \E mx \in ScrollRanges, my \in ScrollRanges : Resize(mx, my)
\* the engine is called with updateParams(i / Grid, j / Grid) in this step
PassesParams(i, j) == lastOp' = Call("updateParams", i, j, FALSE)
\* i / Grid is pos / max, or 1/2 when the range is empty
IsRatio(i, pos, max) ==
    /\ 0 <= i /\ i <= Grid
    /\ IF max > 0 THEN i * max = pos * Grid ELSE 2 * i = Grid

C24_OneFrame ==
    /\ [](frames <= 1)
    /\ [][Frame =>
            /\ frames' = 0 /\ unseen' = 0
            /\ hasStarted =>
                  /\ IsRatio(lastOp'.x, scrollLeft, maxScrollX)
                  /\ IsRatio(Grid - lastOp'.y, scrollTop, maxScrollY)]_vars

\* two scroll events wait for one frame
C24_Witness == frames = 1 /\ rafRef /\ unseen = 2 /\ hasStarted

\* C25: while the experience is started, a scroll event is followed by an
\* updateState call
C25_ScrollSeen == (hasStarted /\ unseen > 0) ~> (unseen = 0)

\* what masterGain.gain was last told to go to: the target of the last
\* setTargetAtTime, or the end value of the fade-in when there was none
MasterGoal == IF targetAt # NoTime THEN masterTarget ELSE fadeInTarget

\* C26: whenever the engine's graph is built, isMuted true in App implies
\* that the engine's mute flag is true and its master gain target is 0
C26_MuteAgrees == (GraphComplete /\ appIsMuted) => (isMuted /\ MasterGoal = 0)

\* the work with this id
Track(id) == CHOOSE p \in {processedProjects[k] : k \in 1..Len(processedProjects)} : p.id = id
NoDup(seq) == \A a \in 1..Len(seq), b \in 1..Len(seq) : a # b => seq[a] # seq[b]

\* C28: handleAudioEnded never selects a track that is in playlistHistory or
\* has just ended, so no track is played twice in a run, a run has at most as
\* many tracks as there are audio projects, and the handleAudioEnded that
\* finds nothing left ends the run: isAudioPlaying false, history cleared
C28_PlaylistEnds ==
    /\ [](NoDup(run) /\ Len(run) <= Len(audioProjects))
    /\ [][AudioEnded =>
            IF playingProject' # playingProject
            THEN /\ playingProject' \notin playlistHistory \cup {playingProject}
                 /\ Track(playingProject').audioUrl # Absent
                 /\ isAudioPlaying'
            ELSE ~isAudioPlaying' /\ playlistHistory' = {}]_vars

\* a run over all four tracks has ended with the Alpha-bend track
C28_Witness ==
    /\ layoutPc = "done" /\ Len(audioProjects) = 4
    /\ playingProject = alphaProject
    /\ ~isAudioPlaying /\ playlistHistory = {} /\ run = <<>>

\* the date of a work as a number of months: two-digit years are 20xx, a
\* work without date counts as January 1970
Dated(p) ==
    IF p.date = Absent THEN 1970 * 12
    ELSE (IF p.date[1][2] < 100 THEN 2000 + p.date[1][2] ELSE p.date[1][2]) * 12
         + p.date[1][1] - 1
\* ids of the audio tracks that are neither the featured nor the Alpha-bend one
OtherIds ==
    {processedProjects[k].id : k \in {j \in 1..Len(processedProjects) :
        /\ processedProjects[j].audioUrl # Absent
        /\ processedProjects[j].id # featuredProject
        /\ processedProjects[j].id # alphaProject}}

\* C29: after a track other than the featured one, with the featured track
\* not in history, the featured track is next; otherwise the newest-dated
\* unplayed other track is next; the Alpha-bend track is next only when
\* every other non-featured audio track is in history
C29_AdvanceOrder ==
    [][AudioEnded =>
          LET history == playlistHistory \cup {playingProject}
              left == OtherIds \ history
          IN IF featuredProject # NoProject /\ playingProject # featuredProject
                /\ featuredProject \notin playlistHistory
             THEN playingProject' = featuredProject
             ELSE /\ left # {} =>
                        /\ playingProject' \in left
                        /\ \A id \in left : Dated(Track(playingProject')) >= Dated(Track(id))
                  /\ (playingProject' # playingProject /\ playingProject' = alphaProject)
                        => left = {}]_vars

\* Drift, then the featured track, then Tide (05/2023, newer than Drift's
\* 11/22), then the Alpha-bend track, which has the newest date of all
C29_Witness ==
    /\ layoutPc = "done" /\ Len(processedProjects) = 4
    /\ run = <<2, 3, 4, 1>>
    /\ featuredProject = 3 /\ alphaProject = 1
    /\ playingProject = 1 /\ isAudioPlaying

\* a step that sets a track playing
SetsPlaying == (\E k \in 1..5 : PlayAudio(k)) \/ (AudioEnded /\ nextProject # NoProject)

\* C30: after handlePlayAudio, and after an auto-advance of handleAudioEnded,
\* the engine is muted: its mute flag is true, and its master gain target is
\* 0 if the graph exists
C30_PlayingMutes ==
    [][SetsPlaying => (isMuted' /\ (masterGain' => MasterGoal' = 0))]_vars

====
